---- MODULE Spec2Model ----
(***************************************************************************)
(* Model of To-Do.py: a curses to-do application with two lists (todo and  *)
(* done), one cursor per list, a six entry menu and a JSON file that is    *)
(* rewritten at the end of every iteration of the input loop.              *)
(*                                                                         *)
(* A task is a Python str object.  It is modelled as a record holding the  *)
(* text (a sequence of characters) and the identity of the object, so that *)
(* two tasks with the same text remain two distinct instances.  The file   *)
(* holds texts only.  Python lists are 0-based, TLA+ sequences 1-based:    *)
(* Python index i is element i+1 of the sequence.                          *)
(***************************************************************************)
EXTENDS Integers, Sequences, FiniteSets, TLC

\* ---- bounds of the model ----
\* Largest number of tasks held by the two lists together (Add Task is not
\* offered a non-empty line beyond it).
MaxTasks == 3
\* Terminal height returned by getmaxyx() throughout a session (the terminal is
\* not resized); the list window shows H - 8 rows.
H == 10

\* ---- inputs ----
\* Lines the user can submit at the "Enter task: " prompt: the empty line,
\* a whitespace-only line and a line with visible text.
Lines == { <<>>, <<" ">>, <<"A">> }
\* Contents of tasks.json at startup (when the file exists).
StartLists == { <<>>, << <<"A">> >> }

\* Longest list and tallest list window (rows) of the cursor specification.
MaxN == 20
MaxV == 5

ListNames == {"todo", "done"}
\* MENU_ITEMS has six entries.
NumMenuItems == 6

VARIABLES
    tasks,          \* tasks['todo'], tasks['done']: sequences of task objects
    file,           \* tasks.json: whether it exists, and the texts it holds
    current_list,   \* "todo" or "done"
    cursors,        \* cursors[list] = [start, pos]
    menu_pos,       \* index into MENU_ITEMS
    in_menu,        \* menu mode flag
    action,         \* the branch of handle_menu_action taken in the last iteration
    h,              \* terminal height, as `h, _ = stdscr.getmaxyx()` reads it
    pc              \* "getch": blocked in getch(); "quit": loop left by break;
                    \* "crashed": an IndexError left main()

vars == <<tasks, file, current_list, cursors, menu_pos, in_menu, action, h, pc>>

\* ---- helpers ----
Min(a, b) == IF a < b THEN a ELSE b
Max(a, b) == IF a > b THEN a ELSE b

Texts(list) == [i \in 1..Len(list) |-> list[i].text]
Ids(list) == { list[i].id : i \in 1..Len(list) }
AllIds(t) == Ids(t.todo) \cup Ids(t.done)
Total(t) == Len(t.todo) + Len(t.done)

\* Identity of a newly created str object: one that no live task has.
NewId(t) == CHOOSE n \in 1..(Total(t) + 1) : n \notin AllIds(t)

\* ---- persistence ----
\* load_tasks: the parsed file, or two empty lists when the file is missing.
load_tasks(f) ==
    IF f.exists THEN [todo |-> f.todo, done |-> f.done]
    ELSE [todo |-> <<>>, done |-> <<>>]

\* save_tasks writing the todo list only.
save_tasks_TodoOnly(t) == [exists |-> TRUE, todo |-> Texts(t.todo), done |-> <<>>]

\* save_tasks: the whole dict is dumped, replacing the file.
save_tasks(t) == [exists |-> TRUE, todo |-> Texts(t.todo), done |-> Texts(t.done)]

\* The str objects json.load creates: one distinct object per element.
Objects(loaded) ==
    [todo |-> [i \in 1..Len(loaded.todo) |-> [id |-> i, text |-> loaded.todo[i]]],
     done |-> [i \in 1..Len(loaded.done) |->
                  [id |-> Len(loaded.todo) + i, text |-> loaded.done[i]]]]

\* ---- list primitives ----
\* list.pop(i) / del list[i] for 0 <= i < len(list): the list without element i.
Without(list, i) == SubSeq(list, 1, i) \o SubSeq(list, i + 2, Len(list))

\* ---- the branches of handle_menu_action ----
\* Add Task inserting at the front of todo.
AddTask_Front(t, new) ==
    IF new.text # <<>> THEN [t EXCEPT !.todo = <<new>> \o @] ELSE t

\* Add Task: `if task: tasks['todo'].append(task)`.
AddTask(t, new) ==
    IF new.text # <<>> THEN [t EXCEPT !.todo = Append(@, new)] ELSE t

\* Mark Done/Not Done reading the item without popping it (a copy, not a move).
MarkDone_Copy(t, cur, idx) ==
    LET other_list == IF cur = "todo" THEN "done" ELSE "todo"
    IN  [t EXCEPT ![other_list] = Append(@, t[cur][idx + 1])]

\* Mark Done/Not Done inserting at the front of the other list.
MarkDone_Front(t, cur, idx) ==
    LET other_list == IF cur = "todo" THEN "done" ELSE "todo"
        popped == t[cur][idx + 1]
    IN  [t EXCEPT ![cur] = Without(@, idx), ![other_list] = <<popped>> \o @]

\* Mark Done/Not Done: pop from the current list, append to the other one.
MarkDone(t, cur, idx) ==
    LET other_list == IF cur = "todo" THEN "done" ELSE "todo"
        popped == t[cur][idx + 1]
    IN  [t EXCEPT ![cur] = Without(@, idx), ![other_list] = Append(@, popped)]

\* Delete Task removing the first item whatever the cursor selects.
DeleteTask_First(t, cur, idx) == [t EXCEPT ![cur] = Without(@, 0)]

\* Delete Task: del tasks[current_list][idx].
DeleteTask(t, cur, idx) == [t EXCEPT ![cur] = Without(@, idx)]

\* Clear Done clearing both lists.
ClearDone_Both(t) == [t EXCEPT !.done = <<>>, !.todo = <<>>]

\* Clear Done: tasks['done'].clear().
ClearDone(t) == [t EXCEPT !.done = <<>>]

\* Mark All Done assigning todo to done instead of extending it.
MarkAllDone_Replace(t) == [t EXCEPT !.done = t.todo, !.todo = <<>>]

\* Mark All Done: tasks['done'].extend(tasks['todo']); tasks['todo'].clear().
MarkAllDone(t) == [t EXCEPT !.done = @ \o t.todo, !.todo = <<>>]

\* cursor['pos'] = min(cursor['pos'], max(0, len(tasks[current_list]) - 1))
Clamp(cursor, n) == [cursor EXCEPT !.pos = Min(@, Max(0, n - 1))]

\* The if/elif chain without the `and tasks[current_list]` tests.
Branch_NoEmptyGuard(t, cur, mp) ==
    IF mp = 0 THEN "add"
    ELSE IF mp = 1 THEN "mark"
    ELSE IF mp = 2 THEN "delete"
    ELSE IF mp = 3 THEN "clear"
    ELSE IF mp = 4 THEN "markall"
    ELSE IF mp = 5 THEN "quit"
    ELSE "skip"

\* Which branch of the if/elif chain is selected ("skip": a Mark or Delete
\* whose list is empty; "quit": no branch, the function returns True).
Branch(t, cur, mp) ==
    IF mp = 0 THEN "add"
    ELSE IF mp = 1 /\ t[cur] # <<>> THEN "mark"
    ELSE IF mp = 2 /\ t[cur] # <<>> THEN "delete"
    ELSE IF mp = 3 THEN "clear"
    ELSE IF mp = 4 THEN "markall"
    ELSE IF mp = 5 THEN "quit"
    ELSE "skip"

\* handle_menu_action: the new tasks and cursor, the branch run ("noadd" for
\* an Add Task whose line fails `if task`), the value returned, and whether the pop/del raised IndexError (nothing is modified
\* then, and the exception leaves main()).
handle_menu_action(t, cur, cursor, mp, line) ==
    LET b == Branch(t, cur, mp)
        idx == cursor.start + cursor.pos
        raised == b \in {"mark", "delete"} /\ idx >= Len(t[cur])
        new == [id |-> NewId(t), text |-> line]
        t2 == IF raised THEN t
              ELSE IF b = "add" THEN AddTask(t, new)
              ELSE IF b = "mark" THEN MarkDone(t, cur, idx)
              ELSE IF b = "delete" THEN DeleteTask(t, cur, idx)
              ELSE IF b = "clear" THEN ClearDone(t)
              ELSE IF b = "markall" THEN MarkAllDone(t)
              ELSE t
    IN  [tasks  |-> t2,
         cursor |-> IF raised THEN cursor ELSE Clamp(cursor, Len(t2[cur])),
         branch |-> IF b = "add" /\ line = <<>> THEN "noadd" ELSE b,
         raised |-> raised,
         quit   |-> (mp = 5)]

\* ---- cursor movement (the KEY_UP / KEY_DOWN branches of main) ----
moveUp(cursor) ==
    IF cursor.pos > 0 THEN [cursor EXCEPT !.pos = @ - 1]
    ELSE IF cursor.start > 0 THEN [cursor EXCEPT !.start = @ - 1]
    ELSE cursor

\* moveDown reading `<=` for `<` in the scroll test.
moveDown_ScrollEarly(cursor, n, height) ==
    IF cursor.pos < Min(height - 9, n - cursor.start - 1)
    THEN [cursor EXCEPT !.pos = @ + 1]
    ELSE IF cursor.start + height - 8 <= n THEN [cursor EXCEPT !.start = @ + 1]
    ELSE cursor

\* moveDown bounding pos by the window only, not by the end of the list.
moveDown_NoLenBound(cursor, n, height) ==
    IF cursor.pos < height - 9 THEN [cursor EXCEPT !.pos = @ + 1]
    ELSE IF cursor.start + height - 8 < n THEN [cursor EXCEPT !.start = @ + 1]
    ELSE cursor

moveDown(cursor, n, height) ==
    IF cursor.pos < Min(height - 9, n - cursor.start - 1)
    THEN [cursor EXCEPT !.pos = @ + 1]
    ELSE IF cursor.start + height - 8 < n THEN [cursor EXCEPT !.start = @ + 1]
    ELSE cursor

\* ---- startup ----
Init ==
    /\ file \in {[exists |-> FALSE, todo |-> <<>>, done |-> <<>>]}
                \cup [exists : {TRUE}, todo : StartLists, done : StartLists]
    /\ tasks = Objects(load_tasks(file))
    /\ current_list = "todo"
    /\ cursors = [todo |-> [start |-> 0, pos |-> 0], done |-> [start |-> 0, pos |-> 0]]
    /\ menu_pos = 0
    /\ in_menu = FALSE
    /\ action = "none"
    /\ h = H
    /\ pc = "getch"

\* ---- one iteration of the input loop per key ----
\* A key whose branch leaves tasks alone: the loop body ends with save_tasks.
Saved == /\ file' = save_tasks(tasks)
         /\ UNCHANGED <<tasks, h>>
         /\ action' = "none"
         /\ pc' = "getch"

\* The quit key honoured only while browsing.
KeyQuit_BrowsingOnly ==
    /\ pc = "getch"
    /\ ~in_menu
    /\ pc' = "quit"
    /\ action' = "none"
    /\ UNCHANGED <<tasks, file, current_list, cursors, menu_pos, in_menu, h>>

KeyQuit ==
    /\ pc = "getch"
    /\ pc' = "quit"
    /\ action' = "none"
    /\ UNCHANGED <<tasks, file, current_list, cursors, menu_pos, in_menu, h>>

KeyMenu ==
    /\ pc = "getch"
    /\ in_menu' = ~in_menu
    /\ Saved
    /\ UNCHANGED <<current_list, cursors, menu_pos>>

\* KeyUp stepping the menu back without the modulo.
KeyUp_NoWrap ==
    /\ pc = "getch"
    /\ IF in_menu
       THEN /\ menu_pos' = menu_pos - 1
            /\ UNCHANGED cursors
       ELSE /\ cursors' = [cursors EXCEPT ![current_list] = moveUp(@)]
            /\ UNCHANGED menu_pos
    /\ Saved
    /\ UNCHANGED <<current_list, in_menu>>

KeyUp ==
    /\ pc = "getch"
    /\ IF in_menu
       THEN /\ menu_pos' = (menu_pos - 1) % NumMenuItems
            /\ UNCHANGED cursors
       ELSE /\ cursors' = [cursors EXCEPT ![current_list] = moveUp(@)]
            /\ UNCHANGED menu_pos
    /\ Saved
    /\ UNCHANGED <<current_list, in_menu>>

KeyDown ==
    /\ pc = "getch"
    /\ IF in_menu
       THEN /\ menu_pos' = (menu_pos + 1) % NumMenuItems
            /\ UNCHANGED cursors
       ELSE /\ cursors' = [cursors EXCEPT
                             ![current_list] = moveDown(@, Len(tasks[current_list]), h)]
            /\ UNCHANGED menu_pos
    /\ Saved
    /\ UNCHANGED <<current_list, in_menu>>

\* KeyLeft without the `not in_menu` test.
KeyLeft_InMenu ==
    /\ pc = "getch"
    /\ current_list' = "todo"
    /\ Saved
    /\ UNCHANGED <<cursors, menu_pos, in_menu>>

KeyLeft ==
    /\ pc = "getch"
    /\ current_list' = IF in_menu THEN current_list ELSE "todo"
    /\ Saved
    /\ UNCHANGED <<cursors, menu_pos, in_menu>>

KeyRight ==
    /\ pc = "getch"
    /\ current_list' = IF in_menu THEN current_list ELSE "done"
    /\ Saved
    /\ UNCHANGED <<cursors, menu_pos, in_menu>>

\* Dispatch clamping the cursors of both lists to their lists' new lengths.
Dispatch_ClampBoth(line) ==
    LET r == handle_menu_action(tasks, current_list, cursors[current_list], menu_pos, line)
        other_list == IF current_list = "todo" THEN "done" ELSE "todo"
    IN  /\ tasks' = r.tasks
        /\ cursors' = [cursors EXCEPT
                          ![current_list] = r.cursor,
                          ![other_list] = Clamp(@, Len(r.tasks[other_list]))]
        /\ action' = r.branch
        /\ pc' = IF r.raised THEN "crashed" ELSE IF r.quit THEN "quit" ELSE "getch"
        /\ in_menu' = IF r.raised \/ r.quit THEN in_menu ELSE FALSE
        /\ file' = IF r.raised \/ r.quit THEN file ELSE save_tasks(r.tasks)
        /\ UNCHANGED <<current_list, menu_pos, h>>

\* Enter in menu mode: the selected action is dispatched; line is what the
\* user submits at the Add Task prompt (read by the Add Task branch only).
\* Quit breaks out of the loop and an IndexError leaves main(): neither
\* reaches `in_menu = False` nor save_tasks.
Dispatch(line) ==
    LET r == handle_menu_action(tasks, current_list, cursors[current_list], menu_pos, line)
    IN  /\ tasks' = r.tasks
        /\ cursors' = [cursors EXCEPT ![current_list] = r.cursor]
        /\ action' = r.branch
        /\ pc' = IF r.raised THEN "crashed" ELSE IF r.quit THEN "quit" ELSE "getch"
        /\ in_menu' = IF r.raised \/ r.quit THEN in_menu ELSE FALSE
        /\ file' = IF r.raised \/ r.quit THEN file ELSE save_tasks(r.tasks)
        /\ UNCHANGED <<current_list, menu_pos, h>>

\* Lines offered to the prompt: only the empty line once MaxTasks is reached.
Offered == IF Total(tasks) < MaxTasks THEN Lines ELSE {<<>>}

\* Enter dispatching without the `and in_menu` test.
KeyEnter_NoMenuGuard ==
    /\ pc = "getch"
    /\ \E line \in Offered : Dispatch(line)

KeyEnter ==
    /\ pc = "getch"
    /\ IF in_menu
       THEN \E line \in Offered : Dispatch(line)
       ELSE /\ Saved
            /\ UNCHANGED <<current_list, cursors, menu_pos, in_menu>>

\* Any key no branch of the loop recognises.
KeyOther ==
    /\ pc = "getch"
    /\ Saved
    /\ UNCHANGED <<current_list, cursors, menu_pos, in_menu>>

Next ==
    \/ KeyOther
    \/ KeyQuit
    \/ KeyMenu
    \/ KeyUp
    \/ KeyDown
    \/ KeyLeft
    \/ KeyRight
    \/ KeyEnter

Spec == Init /\ [][Next]_vars


\* ---- notions the properties are stated with ----
\* The absolute index a list's cursor selects.
AbsIdx(l) == cursors[l].start + cursors[l].pos

OtherList(l) == IF l = "todo" THEN "done" ELSE "todo"

\* The loop is blocked in getch() in menu mode with menu entry mp selected,
\* and the step taken is Enter.
Confirm(mp) == pc = "getch" /\ in_menu /\ menu_pos = mp /\ KeyEnter

\* new is old with the element at Python index i removed, the rest in order.
RemovedAt(old, new, i) ==
    /\ Len(new) = Len(old) - 1
    /\ \A j \in 1..Len(new) : new[j] = (IF j <= i THEN old[j] ELSE old[j + 1])

\* new is old followed by the elements of more, in order.
Extended(old, new, more) ==
    /\ Len(new) = Len(old) + Len(more)
    /\ \A j \in 1..Len(old) : new[j] = old[j]
    /\ \A j \in 1..Len(more) : new[Len(old) + j] = more[j]

\* ---- C1 ----
\* C1: in every reachable state, for each of the two lists: a non-empty list
\* has 0 <= start + pos < len(list), and an empty list has pos = 0.
C1_CursorValid ==
    \A l \in ListNames :
        IF tasks[l] # <<>>
        THEN 0 <= AbsIdx(l) /\ AbsIdx(l) < Len(tasks[l])
        ELSE cursors[l].pos = 0

\* ---- C2 ----
\* C2: no sequence of keys leads to an out-of-range removal: whenever Mark
\* Done/Not Done or Delete Task can be confirmed on a non-empty active list,
\* start + pos is below its length, and the IndexError state is never reached.
C2_NoOutOfRangeRemoval ==
    /\ pc # "crashed"
    /\ (pc = "getch" /\ in_menu /\ menu_pos \in {1, 2} /\ tasks[current_list] # <<>>)
          => AbsIdx(current_list) < Len(tasks[current_list])

\* ---- C3 ----
\* C3: membership is exclusive.  Every task instance held is in exactly one of
\* todo/done, exactly once; no step other than a confirmed Delete Task or
\* Clear Done drops an instance; Mark Done/Not Done and Mark All Done keep the
\* set of instances and |todo| + |done|.
C3_Exclusive ==
    /\ [](Cardinality(AllIds(tasks)) = Total(tasks))
    /\ [][/\ ~(Confirm(2) \/ Confirm(3)) => AllIds(tasks) \subseteq AllIds(tasks')
          /\ (Confirm(1) \/ Confirm(4)) =>
                /\ AllIds(tasks') = AllIds(tasks)
                /\ Total(tasks') = Total(tasks)]_vars

\* A task has been moved to a done list that already held two, todo keeps none.
C3_Witness ==
    pc = "getch" /\ action = "mark" /\ current_list = "todo" /\ Len(tasks.done) = 3

\* ---- C4 ----
\* C4: whenever the loop waits for the next key, and when it has terminated by
\* either quit path, the persisted record equals the in-memory lists.
C4_WriteThrough ==
    pc \in {"getch", "quit"} =>
        load_tasks(file) = [todo |-> Texts(tasks.todo), done |-> Texts(tasks.done)]

\* Quit confirmed in the menu with both lists holding tasks, all on file.
C4_Witness ==
    /\ pc = "quit" /\ action = "quit"
    /\ tasks.todo # <<>> /\ Len(tasks.done) >= 2
    /\ file.exists /\ file.done = Texts(tasks.done)

\* ---- C5 ----
\* C5: Mark Done/Not Done on a non-empty active list with start + pos a valid
\* index removes the item at that index from the active list, the remaining
\* items keeping their order, and makes that same item the last element of the
\* other list, whose earlier elements are unchanged.
C5_MarkDoneMoves ==
    [][\A cur \in ListNames :
         (/\ Confirm(1) /\ current_list = cur
          /\ tasks[cur] # <<>> /\ AbsIdx(cur) < Len(tasks[cur]))
         => /\ RemovedAt(tasks[cur], tasks'[cur], AbsIdx(cur))
            /\ Extended(tasks[OtherList(cur)], tasks'[OtherList(cur)],
                        <<tasks[cur][AbsIdx(cur) + 1]>>)]_vars

\* A task moved back from done to a todo list that is now two long, the
\* moved task last, with a task left in done.
C5_Witness ==
    /\ pc = "getch" /\ action = "mark" /\ current_list = "done"
    /\ Len(tasks.todo) = 2 /\ Len(tasks.done) = 1

\* ---- C6 ----
\* C6: Mark All Done, with either list active, leaves todo empty and done equal
\* to the previous done followed by the previous todo in its original order.
C6_MarkAllDone ==
    [][Confirm(4) =>
         /\ tasks'.todo = <<>>
         /\ Extended(tasks.done, tasks'.done, tasks.todo)]_vars

\* Mark All Done has run with done active and done now holds three tasks.
C6_Witness ==
    action = "markall" /\ current_list = "done" /\ Len(tasks.done) = 3

\* ---- C7 ----
\* C7: Add Task with a non-empty line appends a task with that text as the
\* last element of todo, whichever list is active, and leaves done and the
\* existing elements of todo unchanged.
C7_AddAppends ==
    [][\A line \in Lines :
         (pc = "getch" /\ in_menu /\ menu_pos = 0 /\ line # <<>> /\ Dispatch(line))
         => /\ Len(tasks'.todo) = Len(tasks.todo) + 1
            /\ tasks'.todo[Len(tasks'.todo)].text = line
            /\ SubSeq(tasks'.todo, 1, Len(tasks.todo)) = tasks.todo
            /\ tasks'.done = tasks.done]_vars

\* A task with visible text was added behind another while done was active.
C7_Witness ==
    /\ action = "add" /\ current_list = "done"
    /\ Len(tasks.todo) >= 2 /\ tasks.todo[Len(tasks.todo)].text = <<"A">>
    /\ tasks.done # <<>>

\* ---- C8 ----
\* Trimming: the line without its leading and trailing whitespace.
RECURSIVE lstrip(_)
lstrip(line) ==
    IF line # <<>> /\ Head(line) = " " THEN lstrip(Tail(line)) ELSE line

RECURSIVE rstrip(_)
rstrip(line) ==
    IF line # <<>> /\ line[Len(line)] = " "
    THEN rstrip(SubSeq(line, 1, Len(line) - 1)) ELSE line

strip(line) == rstrip(lstrip(line))

\* C8: Add Task whose line is empty after trimming whitespace (the empty line
\* and any whitespace-only line) adds no task: todo and done are unchanged.
C8_BlankLineDiscarded ==
    [][\A line \in Lines :
         (pc = "getch" /\ in_menu /\ menu_pos = 0 /\ strip(line) = <<>> /\ Dispatch(line))
         => tasks' = tasks]_vars

\* ---- C9 ----
\* C9: Delete Task on a non-empty active list with start + pos a valid index
\* removes exactly the item at that index (the remaining items keep their
\* order), leaves the other list unchanged, and the removed item is in
\* neither list afterwards.
C9_DeleteRemoves ==
    [][\A cur \in ListNames :
         (/\ Confirm(2) /\ current_list = cur
          /\ tasks[cur] # <<>> /\ AbsIdx(cur) < Len(tasks[cur]))
         => /\ RemovedAt(tasks[cur], tasks'[cur], AbsIdx(cur))
            /\ tasks'[OtherList(cur)] = tasks[OtherList(cur)]
            /\ tasks[cur][AbsIdx(cur) + 1].id \notin AllIds(tasks')]_vars

\* A task was deleted from a list of three: two remain in the active list,
\* the cursor on the second of them.
C9_Witness ==
    /\ pc = "getch" /\ action = "delete" /\ Len(tasks[current_list]) = 2
    /\ AbsIdx(current_list) = 1

\* ---- C10 ----
\* C10: Clear Done empties done, whichever list is active and whether or not
\* done was already empty, and leaves todo unchanged.
C10_ClearDone ==
    [][Confirm(3) => tasks'.done = <<>> /\ tasks'.todo = tasks.todo]_vars

\* Clear Done has run with todo active; todo still holds its tasks.
C10_Witness ==
    /\ action = "clear" /\ current_list = "todo"
    /\ tasks.done = <<>> /\ Len(tasks.todo) >= 2

\* ---- C11 ----
\* C11: after a confirmed menu action, the cursor of every list whose length
\* the action changed has pos <= max(0, n - 1) for that list's new length n,
\* also when that list is not the active one.
C11_ModifiedListReclamped ==
    [][(pc = "getch" /\ in_menu /\ KeyEnter) =>
         \A l \in ListNames :
            Len(tasks'[l]) # Len(tasks[l]) =>
                cursors'[l].pos <= Max(0, Len(tasks'[l]) - 1)]_vars

\* ---- cursor movement over a list of fixed length ----
\* A session that starts with n tasks in the active list, on a terminal whose
\* list window has between 1 and MaxV rows, and in which only Up and Down are
\* pressed while browsing.
FilledList(n) == [i \in 1..n |-> [id |-> i, text |-> <<"A">>]]

InitCursor ==
    /\ h \in 9..(8 + MaxV)
    /\ current_list \in ListNames
    /\ \E n \in 0..MaxN :
          tasks = [l \in ListNames |-> IF l = current_list THEN FilledList(n) ELSE <<>>]
    /\ file = save_tasks(tasks)
    /\ cursors = [todo |-> [start |-> 0, pos |-> 0], done |-> [start |-> 0, pos |-> 0]]
    /\ menu_pos = 0
    /\ in_menu = FALSE
    /\ action = "none"
    /\ pc = "getch"

BrowseUp == ~in_menu /\ KeyUp

BrowseDown == ~in_menu /\ KeyDown

NextCursor ==
    \/ BrowseUp
    \/ BrowseDown

SpecCursor == InitCursor /\ [][NextCursor]_vars

\* The active list's cursor, its length n and the rows v of the list window.
Cur == cursors[current_list]
N == Len(tasks[current_list])
V == h - 8

\* ---- C12 ----
\* C12: for a list of fixed length n and window height v >= 1, from start = 0,
\* pos = 0, after any number of Up/Down presses while browsing:
\* 0 <= start <= max(0, n-v); 0 <= pos <= min(v-1, n-start-1) and
\* start + pos < n when n > 0; pos = 0 when n = 0; and a move at a boundary
\* (Up at index 0, Down at index n-1 or on an empty list) changes nothing.
C12_CursorBounds ==
    /\ [](/\ 0 <= Cur.start /\ Cur.start <= Max(0, N - V)
          /\ 0 <= Cur.pos
          /\ N > 0 => (Cur.pos <= Min(V - 1, N - Cur.start - 1) /\ Cur.start + Cur.pos < N)
          /\ N = 0 => Cur.pos = 0)
    /\ [][/\ ~(BrowseUp /\ Cur.start + Cur.pos = 0)
          /\ ~(BrowseDown /\ Cur.start + Cur.pos >= N - 1)]_vars

\* The cursor at the last of seven items in a three row window scrolled to
\* its end.
C12_Witness ==
    N = 7 /\ V = 3 /\ Cur.start = 4 /\ Cur.pos = 2

\* ---- C13 ----
\* C13: while browsing from a valid cursor state, Down moves the selection
\* start + pos forward by exactly one when it is below n-1 (pos + 1 while
\* pos < v-1, otherwise start + 1 with pos unchanged) and changes nothing at
\* n-1; Up moves it back by exactly one when it is above 0 and changes nothing
\* at 0.
C13_StepByOne ==
    /\ [](Cur.start + Cur.pos < N - 1 => ENABLED (BrowseDown /\ cursors' # cursors))
    /\ [](Cur.start + Cur.pos > 0 => ENABLED (BrowseUp /\ cursors' # cursors))
    /\ [][/\ BrowseDown =>
               cursors'[current_list] =
                  (IF Cur.start + Cur.pos >= N - 1 THEN Cur
                   ELSE IF Cur.pos < V - 1 THEN [start |-> Cur.start, pos |-> Cur.pos + 1]
                   ELSE [start |-> Cur.start + 1, pos |-> Cur.pos])
          /\ BrowseUp =>
               /\ cursors'[current_list].start + cursors'[current_list].pos =
                     (IF Cur.start + Cur.pos > 0 THEN Cur.start + Cur.pos - 1 ELSE 0)
               /\ cursors'[current_list].pos >= 0
               /\ cursors'[current_list].start >= 0]_vars

\* Twenty items in five rows: after the fifth Down, start = 1 and pos = 4.
C13_Witness ==
    N = 20 /\ V = 5 /\ Cur.start = 1 /\ Cur.pos = 4

\* ---- C14 ----
\* C14: menu_pos is in 0..5 in every reachable state; in menu mode Down sets it
\* to (menu_pos + 1) mod 6 and Up to (menu_pos - 1) mod 6, wrapping 5 -> 0 and
\* 0 -> 5; the menu-toggle key flips in_menu and leaves menu_pos unchanged.
C14_MenuWrap ==
    /\ [](menu_pos \in 0..5)
    /\ []((pc = "getch" /\ in_menu) =>
            /\ ENABLED (KeyDown /\ menu_pos' # menu_pos)
            /\ ENABLED (KeyUp /\ menu_pos' # menu_pos))
    /\ [][/\ (in_menu /\ KeyDown) =>
                menu_pos' = (IF menu_pos = 5 THEN 0 ELSE menu_pos + 1)
          /\ (in_menu /\ KeyUp) =>
                menu_pos' = (IF menu_pos = 0 THEN 5 ELSE menu_pos - 1)
          /\ KeyMenu => (in_menu' = ~in_menu /\ menu_pos' = menu_pos)]_vars

\* Menu mode re-entered with the last entry selected: the position survived
\* leaving the menu through a dispatched action.
C14_Witness ==
    pc = "getch" /\ in_menu /\ menu_pos = 5 /\ Len(tasks.done) >= 2

\* ---- C15 ----
\* C15: current_list changes only by Left (to todo) or Right (to done) pressed
\* while in_menu is false; every step taken while in_menu is true, including
\* Left, Right and a confirmed menu action, leaves current_list unchanged.
C15_ListSwitchOnlyBrowsing ==
    [][/\ in_menu => current_list' = current_list
       /\ current_list' # current_list =>
             /\ ~in_menu
             /\ \/ KeyLeft /\ current_list' = "todo"
                \/ KeyRight /\ current_list' = "done"]_vars

\* Menu mode with the done list active and tasks in both lists: Left is
\* available here and must not switch.
C15_Witness ==
    /\ pc = "getch" /\ in_menu /\ current_list = "done"
    /\ tasks.todo # <<>> /\ tasks.done # <<>>

\* ---- C16 ----
\* C16: Enter in menu mode on any entry other than Quit always leaves
\* in_menu = false, also when the action's precondition failed or the Add Task
\* line was discarded; Enter while browsing dispatches nothing and changes no
\* state.
C16_ConfirmLeavesMenu ==
    [][/\ (pc = "getch" /\ in_menu /\ menu_pos # 5 /\ KeyEnter) => in_menu' = FALSE
       /\ (pc = "getch" /\ ~in_menu /\ KeyEnter) =>
             /\ UNCHANGED <<tasks, current_list, cursors, menu_pos, in_menu>>
             /\ action' = "none"
             /\ load_tasks(file') = load_tasks(file)]_vars

\* ---- C17 ----
\* C17: Mark Done/Not Done or Delete Task confirmed while the active list is
\* empty changes neither todo nor done and reaches no error state, whatever
\* the active cursor's start and pos are.
C17_EmptyListNoOp ==
    [][((Confirm(1) \/ Confirm(2)) /\ tasks[current_list] = <<>>) =>
          (tasks' = tasks /\ pc' = "getch")]_vars

\* The action was skipped on an empty active list whose cursor is still
\* scrolled down.
C17_Witness ==
    /\ pc = "getch" /\ action = "skip"
    /\ tasks[current_list] = <<>> /\ cursors[current_list].start > 0

\* ---- C18 ----
\* C18: the quit key terminates the loop on that very key from every state
\* (browsing or menu mode, either list, any menu_pos), and Enter on the Quit
\* entry in menu mode terminates too; neither changes todo or done, and no key
\* is processed after termination.
C18_QuitTerminates ==
    /\ [](pc = "getch" => ENABLED (KeyQuit /\ pc' = "quit" /\ tasks' = tasks))
    /\ [][/\ pc # "quit"
          /\ Confirm(5) => (pc' = "quit" /\ tasks' = tasks)
          /\ KeyQuit => (pc' = "quit" /\ tasks' = tasks)]_vars

\* The quit key pressed in menu mode, done active, Clear Done selected.
C18_Witness ==
    /\ pc = "quit" /\ action = "none" /\ in_menu
    /\ current_list = "done" /\ menu_pos = 3 /\ tasks.done # <<>>

\* ---- C19 ----
\* C19: todo and done are changed only by Enter in menu mode; every other key
\* leaves both unchanged, and an unrecognised key also leaves current_list,
\* in_menu, menu_pos and both cursors unchanged.
C19_OnlyConfirmMutates ==
    [][/\ tasks' # tasks => (pc = "getch" /\ in_menu /\ KeyEnter)
       /\ KeyOther => UNCHANGED <<tasks, current_list, in_menu, menu_pos, cursors>>]_vars

\* Keys other than Enter have brought the menu to Mark All Done over a todo
\* list of two or more, all of it on file.
C19_Witness ==
    /\ pc = "getch" /\ action = "none" /\ in_menu /\ menu_pos = 4
    /\ Len(tasks.todo) >= 2 /\ file.exists /\ file.todo = Texts(tasks.todo)

\* ---- C20 ----
\* C20: a key changes at most the active list's cursor: the inactive list's
\* start and pos are unchanged by every key, menu actions included; Up/Down in
\* menu mode and Left/Right change neither cursor.
C20_CursorsIndependent ==
    [][/\ cursors'[OtherList(current_list)] = cursors[OtherList(current_list)]
       /\ (in_menu /\ cursors' # cursors) => ~(KeyUp \/ KeyDown)
       /\ cursors' # cursors => ~(KeyLeft \/ KeyRight)]_vars

\* Mark All Done ran with done active and the todo cursor is where it was
\* left, on its second row.
C20_Witness ==
    /\ pc = "getch" /\ action = "markall" /\ current_list = "done"
    /\ cursors.todo.pos = 1
====
